---------------------------- MODULE Spec2Model ----------------------------
(***************************************************************************)
(* A model of gtfsutils: the table store (df_dict), the cascading filters  *)
(* of gtfsutils/filter.py and save_gtfs of gtfsutils/__init__.py.          *)
(*                                                                         *)
(* A table is a sequence of rows (records); df_dict is a function from the *)
(* table names that are present to their tables.  Identifiers are positive *)
(* integers and 0 stands for a missing value (NaN).  Coordinates are       *)
(* integers (twice the degree value, so that a box can end between two     *)
(* stops).  A call of a filter is computed by an operator that returns     *)
(* [df |-> the store as the call leaves it, err |-> the exception raised   *)
(* or "none"]: an exception stops the call and keeps the assignments made  *)
(* before it.                                                              *)
(***************************************************************************)
EXTENDS Integers, Sequences, FiniteSets, TLC

VARIABLES
    df_dict,   \* the table store the caller holds
    pre,       \* the store as it was when the last call started
    last,      \* the last call: [op, args, err]
    dst,       \* the destination file of save_gtfs
    calls      \* the number of calls made on the store so far

vars == <<df_dict, pre, last, dst, calls>>

-----------------------------------------------------------------------------
(* Bounds of the model *)

NumStops == 3

\* the longest sequence of calls made on one store
MaxCalls == 2

-----------------------------------------------------------------------------
(* Generic helpers: numpy / pandas primitives *)

NaN == 0

Range(s) == {s[i] : i \in DOMAIN s}

\* pd.notna
notna(v) == v # NaN

\* the smallest element of a non-empty set of integers
SetMin(S) == CHOOSE m \in S : \A x \in S : m <= x

RECURSIVE SortedSeq(_)
SortedSeq(S) == IF S = {} THEN <<>>
                ELSE LET m == SetMin(S) IN <<m>> \o SortedSeq(S \ {m})

\* np.unique: the sorted distinct values of an array
np_unique(arr) == SortedSeq(Range(arr))

\* np.concatenate of two arrays
np_concatenate(a, b) == a \o b

\* Series.isin(values)
isin(v, values) == \E i \in DOMAIN values : values[i] = v

\* df[df[col].isin(values)]
WhereIn(table, col, values) == SelectSeq(table, LAMBDA r : isin(r[col], values))

\* df[col].values
Column(table, col) == [i \in DOMAIN table |-> table[i][col]]

\* `x if isinstance(x, (list, ndarray)) else [x]`
AsList(x) == IF x.kind = "scalar" THEN <<x.val>> ELSE x.val


-----------------------------------------------------------------------------
(* Table names: gtfsutils/__init__.py *)

REQUIRED_GTFS_FILES == {"agency", "stops", "routes", "trips", "calendar", "stop_times"}

\* the optional tables the filters look at
OptionalTables == {"calendar_dates", "shapes", "frequencies", "transfers"}

-----------------------------------------------------------------------------
(* A running call: the store so far and the exception raised, if any *)

Start(df) == [df |-> df, err |-> "none"]

Raise(c, e) == [c EXCEPT !.err = e]

\* df_dict[key] = table, where computing `table` reads the tables `needs`
\* (key included): reading an absent one raises KeyError before the
\* assignment, and nothing is done once an exception is raised
Assign(c, needs, key, table) ==
    IF c.err # "none" THEN c
    ELSE IF ~(needs \subseteq DOMAIN c.df) THEN Raise(c, "KeyError")
    ELSE [c EXCEPT !.df[key] = table]

\* the same statement under `if key in df_dict:`
AssignIfPresent(c, needs, key, table) ==
    IF c.err = "none" /\ key \in DOMAIN c.df THEN Assign(c, needs, key, table) ELSE c

\* df_dict[key] = df_dict[key][df_dict[key][col].isin(values)]
Keep(c, key, col, values) ==
    Assign(c, {key}, key, WhereIn(c.df[key], col, values))

\* a variant that computes the mask and does not assign the masked table
KeepReferencedNotAssigned(c, key, col, other) ==
    IF c.err = "none" /\ ~({other, key} \subseteq DOMAIN c.df) THEN Raise(c, "KeyError") ELSE c

\* df_dict[key] = df_dict[key][df_dict[key][col].isin(df_dict[other][col].values)]
KeepReferenced(c, key, col, other) ==
    Assign(c, {other, key}, key, WhereIn(c.df[key], col, Column(c.df[other], col)))

\* the same statements under `if key in df_dict:`
KeepIfPresent(c, key, col, values) ==
    IF c.err = "none" /\ key \in DOMAIN c.df THEN Keep(c, key, col, values) ELSE c

KeepReferencedIfPresent(c, key, col, other) ==
    IF c.err = "none" /\ key \in DOMAIN c.df THEN KeepReferenced(c, key, col, other) ELSE c

\* `if "transfers" in df_dict:` keep the rows whose from_stop_id and
\* to_stop_id are both in stop_ids
KeepTransfers(c, stop_ids) ==
    AssignIfPresent(c, {"transfers"}, "transfers",
        SelectSeq(c.df["transfers"], LAMBDA r : isin(r.from_stop_id, stop_ids)
                                                /\ isin(r.to_stop_id, stop_ids)))

-----------------------------------------------------------------------------
(* Geometry: a filter geometry is a rectangle [minx, miny, maxx, maxy];    *)
(* shapely's predicates are modelled for points and for polylines whose    *)
(* segments are parallel to an axis (the only ones the feed below holds).  *)

\* shapely.geometry.box(*bounds)
box(b) == [minx |-> b[1], miny |-> b[2], maxx |-> b[3], maxy |-> b[4]]

\* the geometry the spatial filters derive from their argument, or the error
Geometry(filter_geometry) ==
    IF filter_geometry.kind = "list"
    THEN IF Len(filter_geometry.val) # 4
         THEN [err |-> "ValueError", geom |-> <<>>]
         ELSE [err |-> "none", geom |-> box(filter_geometry.val)]
    ELSE IF filter_geometry.kind = "BaseGeometry"
    THEN [err |-> "none", geom |-> filter_geometry.val]
    ELSE [err |-> "ValueError", geom |-> <<>>]

\* Point(x, y).intersects(geom)
PointIntersects(x, y, geom) ==
    /\ geom.minx <= x /\ x <= geom.maxx
    /\ geom.miny <= y /\ y <= geom.maxy

Min2(a, b) == IF a <= b THEN a ELSE b
Max2(a, b) == IF a >= b THEN a ELSE b

\* LineString(coords).within(geom): every vertex inside the rectangle
LineWithin(coords, geom) ==
    \A i \in DOMAIN coords :
        /\ geom.minx < coords[i][1] /\ coords[i][1] < geom.maxx
        /\ geom.miny < coords[i][2] /\ coords[i][2] < geom.maxy

\* LineString(coords).intersects(geom): some segment meets the rectangle
LineIntersects(coords, geom) ==
    \E i \in 1..(Len(coords) - 1) :
        /\ Min2(coords[i][1], coords[i+1][1]) <= geom.maxx
        /\ Max2(coords[i][1], coords[i+1][1]) >= geom.minx
        /\ Min2(coords[i][2], coords[i+1][2]) <= geom.maxy
        /\ Max2(coords[i][2], coords[i+1][2]) >= geom.miny

-----------------------------------------------------------------------------
(* gtfsutils/filter.py *)

filter_stops_including_stations_by_stop_ids(c, stop_ids) ==
    IF c.err # "none" THEN c
    ELSE IF "stops" \notin DOMAIN c.df THEN Raise(c, "KeyError")
    ELSE LET parent_stations ==
                 Column(SelectSeq(c.df["stops"],
                                  LAMBDA r : isin(r.stop_id, stop_ids)
                                             /\ notna(r.parent_station)),
                        "parent_station")
             keep == np_unique(np_concatenate(stop_ids, parent_stations))
         IN  Assign(c, {"stops"}, "stops", WhereIn(c.df["stops"], "stop_id", keep))

\* a variant that reads trip_ids before stop_times is filtered
filter_by_stop_ids_early_trip_ids(df, stop_ids_arg) ==
    LET stop_ids == AsList(stop_ids_arg)
        c1 == Keep(Start(df), "stops", "stop_id", stop_ids)
        c2 == Keep(c1, "stop_times", "stop_id", stop_ids)
        trip_ids == Column(df["stop_times"], "trip_id")
        c3 == Keep(c2, "trips", "trip_id", trip_ids)
        c4 == KeepReferenced(c3, "routes", "route_id", "trips")
        c5 == KeepReferenced(c4, "agency", "agency_id", "routes")
        c6 == KeepReferencedIfPresent(c5, "shapes", "shape_id", "trips")
        c7 == KeepReferencedIfPresent(c6, "calendar", "service_id", "trips")
        c8 == KeepReferencedIfPresent(c7, "calendar_dates", "service_id", "trips")
        c9 == KeepIfPresent(c8, "frequencies", "trip_id", trip_ids)
    IN  KeepTransfers(c9, stop_ids)

filter_by_stop_ids(df, stop_ids_arg) ==
    LET stop_ids == AsList(stop_ids_arg)
        c1 == Keep(Start(df), "stops", "stop_id", stop_ids)
        c2 == Keep(c1, "stop_times", "stop_id", stop_ids)
        trip_ids == Column(c2.df["stop_times"], "trip_id")
        c3 == Keep(c2, "trips", "trip_id", trip_ids)
        c4 == KeepReferenced(c3, "routes", "route_id", "trips")
        c5 == KeepReferenced(c4, "agency", "agency_id", "routes")
        c6 == KeepReferencedIfPresent(c5, "shapes", "shape_id", "trips")
        c7 == KeepReferencedIfPresent(c6, "calendar", "service_id", "trips")
        c8 == KeepReferencedIfPresent(c7, "calendar_dates", "service_id", "trips")
        c9 == KeepIfPresent(c8, "frequencies", "trip_id", trip_ids)
    IN  KeepTransfers(c9, stop_ids)

\* load_stops(df_dict) followed by gdf_stops.intersects(geom): the rows of
\* stops whose point meets the geometry
StopsIntersecting(df, geom) ==
    SelectSeq(df["stops"], LAMBDA r : PointIntersects(r.stop_lon, r.stop_lat, geom))

spatial_filter_by_stops(df, filter_geometry) ==
    LET g == Geometry(filter_geometry) IN
    IF g.err # "none" THEN Raise(Start(df), g.err)
    ELSE IF "stops" \notin DOMAIN df THEN Raise(Start(df), "KeyError")
    ELSE filter_by_stop_ids(df,
             [kind |-> "ndarray",
              val |-> Column(StopsIntersecting(df, g.geom), "stop_id")])

\* lines 53-67 of get_stop_ids_including_stations_within_geometry: the ids
\* returned when gdf_stops[mask] is `selected`
StationClosure(gdf_stops, selected) ==
    LET stop_ids == Column(selected, "stop_id")
        parent_stations == Column(SelectSeq(selected, LAMBDA r : notna(r.parent_station)), "parent_station")
        combined_stop_ids_and_parent_stations == np_unique(np_concatenate(stop_ids, parent_stations))
        additional_stop_ids == Column(SelectSeq(gdf_stops, LAMBDA r : isin(r.parent_station, combined_stop_ids_and_parent_stations)), "stop_id")
    IN  np_unique(np_concatenate(combined_stop_ids_and_parent_stations, additional_stop_ids))

\* a variant that stops after line 61: the child stops are not added
get_stop_ids_without_child_stops(df, geom) ==
    LET selected == StopsIntersecting(df, geom) IN
    np_unique(np_concatenate(Column(selected, "stop_id"), Column(SelectSeq(selected, LAMBDA r : notna(r.parent_station)), "parent_station")))

get_stop_ids_including_stations_within_geometry(df, geom) ==
    StationClosure(df["stops"], StopsIntersecting(df, geom))

spatial_filter_by_stations(df, filter_geometry) ==
    LET g == Geometry(filter_geometry) IN
    IF g.err # "none" THEN Raise(Start(df), g.err)
    ELSE IF "stops" \notin DOMAIN df THEN Raise(Start(df), "KeyError")
    ELSE filter_by_stop_ids(df,
             [kind |-> "ndarray",
              val |-> get_stop_ids_including_stations_within_geometry(df, g.geom)])


\* load_shapes(df_dict): one polyline per shape_id with more than one point,
\* in the order of shape_pt_sequence; groupby yields the ids in sorted order
RECURSIVE SortBySequence(_)
SortBySequence(rows) ==
    IF rows = {} THEN <<>>
    ELSE LET first == CHOOSE r \in rows :
                 \A q \in rows : r.shape_pt_sequence <= q.shape_pt_sequence
         IN  <<first>> \o SortBySequence(rows \ {first})

load_shapes(df) ==
    LET shapes == df["shapes"]
        ids == np_unique(Column(shapes, "shape_id"))
        line(id) ==
            LET g == SortBySequence({shapes[i] : i \in {j \in DOMAIN shapes :
                                                        shapes[j].shape_id = id}})
            IN  [shape_id |-> id,
                 coords |-> [i \in DOMAIN g |->
                                <<g[i].shape_pt_lon, g[i].shape_pt_lat>>]]
    IN  SelectSeq([i \in DOMAIN ids |-> line(ids[i])],
                  LAMBDA item : Len(item.coords) > 1)

filter_by_shape_ids(df, shape_ids_arg) ==
    LET shape_ids == AsList(shape_ids_arg)
        c1 == Keep(Start(df), "shapes", "shape_id", shape_ids)
        c2 == Keep(c1, "trips", "shape_id", shape_ids)
        c3 == KeepReferenced(c2, "routes", "route_id", "trips")
        c4 == KeepReferenced(c3, "agency", "agency_id", "routes")
        trip_ids == Column(c4.df["trips"], "trip_id")
        c5 == Keep(c4, "stop_times", "trip_id", trip_ids)
        stop_ids == Column(c5.df["stop_times"], "stop_id")
        c6 == filter_stops_including_stations_by_stop_ids(c5, stop_ids)
        c7 == KeepReferencedIfPresent(c6, "calendar", "service_id", "trips")
        c8 == KeepReferencedIfPresent(c7, "calendar_dates", "service_id", "trips")
        c9 == KeepIfPresent(c8, "frequencies", "trip_id", trip_ids)
    IN  KeepTransfers(c9, stop_ids)

\* gpd.GeoDataFrame(items, geometry="geom") of an empty list has no column
\* "geom" and raises ValueError
spatial_filter_by_shapes(df, filter_geometry, operation) ==
    LET g == Geometry(filter_geometry) IN
    IF g.err # "none" THEN Raise(Start(df), g.err)
    ELSE IF "shapes" \notin DOMAIN df THEN Raise(Start(df), "ValueError")
    ELSE LET gdf_shapes == load_shapes(df) IN
         IF gdf_shapes = <<>> THEN Raise(Start(df), "ValueError")
         ELSE IF operation \notin {"within", "intersects"}
         THEN Raise(Start(df), "ValueError")
         ELSE LET kept == SelectSeq(gdf_shapes,
                              LAMBDA item :
                                  IF operation = "within"
                                  THEN LineWithin(item.coords, g.geom)
                                  ELSE LineIntersects(item.coords, g.geom))
              IN  filter_by_shape_ids(df,
                      [kind |-> "ndarray", val |-> Column(kept, "shape_id")])

\* line 246 calls filter_stops_including_stations_by_stop_ids with one
\* argument of two: TypeError; lines 248-276 are never reached
filter_by_agency_ids(df, agency_ids_arg) ==
    LET agency_ids == AsList(agency_ids_arg)
        c1 == Keep(Start(df), "agency", "agency_id", agency_ids)
        c2 == Keep(c1, "routes", "agency_id", agency_ids)
        c3 == KeepReferenced(c2, "trips", "route_id", "routes")
        c4 == KeepReferenced(c3, "stop_times", "trip_id", "trips")
    IN  IF c4.err # "none" THEN c4 ELSE Raise(c4, "TypeError")

filter_by_service_ids(df, service_ids_arg) ==
    LET service_ids == AsList(service_ids_arg)
        c1 == Keep(Start(df), "trips", "service_id", service_ids)
        trip_ids == Column(c1.df["trips"], "trip_id")
        c2 == Keep(c1, "stop_times", "trip_id", trip_ids)
        stop_ids == Column(c2.df["stop_times"], "stop_id")
        c3 == filter_stops_including_stations_by_stop_ids(c2, stop_ids)
        c4 == KeepReferenced(c3, "routes", "route_id", "trips")
        c5 == KeepReferenced(c4, "agency", "agency_id", "routes")
        c6 == KeepReferencedIfPresent(c5, "shapes", "shape_id", "trips")
        c7 == KeepTransfers(c6, stop_ids)
    IN  KeepIfPresent(c7, "frequencies", "trip_id", trip_ids)


\* pd.to_datetime(column, format="%Y%m%d") and datetime.strptime(s, "%Y%m%d"):
\* the instant of the date yyyymmdd, as a number that orders instants
to_datetime(yyyymmdd) ==
    ((yyyymmdd \div 10000) * 12 + ((yyyymmdd \div 100) % 100) - 1) * 31
    + (yyyymmdd % 100)

\* a variant whose row runs on every day of the week
dummy_calendar_service_every_day(df, service_id) ==
    [monday |-> 1, tuesday |-> 1, wednesday |-> 1, thursday |-> 1,
     friday |-> 1, saturday |-> 1, sunday |-> 1,
     start_date |-> SelectSeq(df["calendar_dates"],
                              LAMBDA r : r.service_id = service_id)[1].date,
     end_date |-> SelectSeq(df["calendar_dates"],
                            LAMBDA r : r.service_id = service_id)[1].date,
     service_id |-> service_id]

\* the dummy calendar row of lines 375-389 for service_id
dummy_calendar_service(df, service_id) ==
    LET df_calendar_dates_subset ==
            SelectSeq(df["calendar_dates"],
                      LAMBDA r : r.service_id = service_id)[1]
    IN  [monday |-> 0, tuesday |-> 0, wednesday |-> 0, thursday |-> 0,
         friday |-> 0, saturday |-> 0, sunday |-> 0,
         start_date |-> df_calendar_dates_subset.date,
         end_date |-> df_calendar_dates_subset.date,
         service_id |-> service_id]

\* the loop of lines 372-392 over service_ids_not_in_calendar
RECURSIVE FillLoop(_, _)
FillLoop(df, service_ids) ==
    IF service_ids = <<>> THEN df
    ELSE FillLoop([df EXCEPT !["calendar"] =
                       <<dummy_calendar_service(df, Head(service_ids))>> \o @],
                  Tail(service_ids))

\* a variant that never finds a service id missing
fill_missing_nothing(c, calendar_dates_service_ids, calendar_service_ids) == c

\* a variant that takes every service id of calendar_dates for missing
fill_missing_every_service_id(c, calendar_dates_service_ids, calendar_service_ids) ==
    IF c.err # "none" THEN c
    ELSE [c EXCEPT !.df = FillLoop(@, np_unique(calendar_dates_service_ids))]

fill_missing_service_ids_in_calendar(c, calendar_dates_service_ids, calendar_service_ids) ==
    IF c.err # "none" THEN c
    ELSE LET service_ids_not_in_calendar ==
                 np_unique(SelectSeq(calendar_dates_service_ids,
                               LAMBDA item : ~isin(item, calendar_service_ids)))
         IN  [c EXCEPT !.df = FillLoop(@, service_ids_not_in_calendar)]

\* a variant whose comparisons leave out the first and the last day
KeepStrictlyInside(c, key, first, final, start_date, end_date) ==
    Assign(c, {key}, key,
        SelectSeq(c.df[key], LAMBDA r : to_datetime(r[first]) < end_date
                                        /\ to_datetime(r[final]) > start_date))

\* df_dict[key] = df_dict[key][(to_datetime(df_dict[key][first]) <= end_date)
\*                             & (to_datetime(df_dict[key][final]) >= start_date)]
KeepOverlapping(c, key, first, final, start_date, end_date) ==
    Assign(c, {key}, key,
        SelectSeq(c.df[key], LAMBDA r : to_datetime(r[first]) <= end_date
                                        /\ to_datetime(r[final]) >= start_date))

filter_by_calendar(df, start_date, end_date) ==
    IF start_date.kind # "datetime" THEN Raise(Start(df), "ValueError")
    ELSE IF end_date.kind # "datetime" THEN Raise(Start(df), "ValueError")
    ELSE
    LET c1 == KeepOverlapping(Start(df), "calendar_dates", "date", "date",
                              start_date.val, end_date.val)
        calendar_dates_service_ids == Column(c1.df["calendar_dates"], "service_id")
        c2 == KeepOverlapping(c1, "calendar", "start_date", "end_date",
                              start_date.val, end_date.val)
        calendar_service_ids == Column(c2.df["calendar"], "service_id")
        c3 == fill_missing_service_ids_in_calendar(
                  c2, calendar_dates_service_ids, calendar_service_ids)
        service_ids == np_unique(np_concatenate(calendar_dates_service_ids,
                                                calendar_service_ids))
    IN  IF c3.err # "none" THEN c3
        ELSE filter_by_service_ids(c3.df, [kind |-> "ndarray", val |-> service_ids])

-----------------------------------------------------------------------------
(* gtfsutils/__init__.py: save_gtfs *)

\* the destination path when no file is there (os.path.exists is FALSE)
NoFile == [exists |-> FALSE, entries |-> {}]

\* df.to_csv(index=False): a header line and one line per row
to_csv(table) == [lines |-> Len(table) + 1, rows |-> table]

\* the archive ZipFile(filepath, "w") holds after the loop of lines 238-240:
\* one entry <<filekey, buffer>> per table
ZipOf(df) == [exists |-> TRUE,
              entries |-> {<<filekey, to_csv(df[filekey])>> : filekey \in DOMAIN df}]

\* a variant that looks at the destination before it looks at the tables
save_gtfs_destination_first(df, file, ignore_required, overwrite) ==
    IF ~(overwrite \/ ~file.exists)
    THEN [file |-> file, err |-> "none"]
    ELSE IF ~ignore_required /\ ~(\A key \in REQUIRED_GTFS_FILES : key \in DOMAIN df)
    THEN [file |-> file, err |-> "ValueError"]
    ELSE [file |-> ZipOf(df), err |-> "none"]

\* [file |-> the destination after the call, err |-> the exception or "none"]
save_gtfs(df, file, ignore_required, overwrite) ==
    IF ~ignore_required /\ ~(\A key \in REQUIRED_GTFS_FILES : key \in DOMAIN df)
    THEN [file |-> file, err |-> "ValueError"]
    ELSE IF overwrite \/ ~file.exists
    THEN [file |-> ZipOf(df), err |-> "none"]
    ELSE [file |-> file, err |-> "none"]

-----------------------------------------------------------------------------
(* gtfsutils/__init__.py: get_calendar_date_range *)

SetMax(S) == CHOOSE m \in S : \A x \in S : m >= x

\* a variant that looks at start_date for the minimum and at end_date for the
\* maximum only
get_calendar_date_range_by_column(df) ==
    IF "calendar" \notin DOMAIN df \/ df["calendar"] = <<>>
    THEN [err |-> "ValueError", ret |-> <<>>]
    ELSE [err |-> "none",
          ret |-> <<to_datetime(SetMin(Range(Column(df["calendar"], "start_date")))),
                    to_datetime(SetMax(Range(Column(df["calendar"], "end_date"))))>>]

\* [err |-> the exception or "none", ret |-> <<min_date, max_date>>]; the min
\* of an empty column is nan, and strptime("nan", "%Y%m%d") raises ValueError
get_calendar_date_range(df) ==
    IF "calendar" \notin DOMAIN df THEN [err |-> "ValueError", ret |-> <<>>]
    ELSE IF df["calendar"] = <<>> THEN [err |-> "ValueError", ret |-> <<>>]
    ELSE LET start_date == Range(Column(df["calendar"], "start_date"))
             end_date == Range(Column(df["calendar"], "end_date"))
             min_date == Min2(SetMin(start_date), SetMin(end_date))
             max_date == Max2(SetMax(start_date), SetMax(end_date))
         IN  [err |-> "none", ret |-> <<to_datetime(min_date), to_datetime(max_date)>>]

-----------------------------------------------------------------------------
(* The feeds load_gtfs can return.  Stops 1..NumStops lie on a line, stop i *)
(* at (2i, 2); parent[i] is stop i's parent_station.  Trip 1 calls at stop  *)
(* 1, trip 2 at stops 2..NumStops, trip 3 (a service that only             *)
(* calendar_dates defines) at the last stop.  A table whose file is not in  *)
(* the feed is not in the store, and no row refers to it.                   *)

StopIds == 1..NumStops

FeedTable(key, keys, parent) ==
    CASE key = "agency" -> <<[agency_id |-> 1], [agency_id |-> 2]>>
      [] key = "routes" -> <<[route_id |-> 1, agency_id |-> 1],
                             [route_id |-> 2, agency_id |-> 2]>>
      [] key = "trips" ->
            LET shape(id) == IF "shapes" \in keys THEN id ELSE NaN IN
            <<[trip_id |-> 1, route_id |-> 1, service_id |-> 1, shape_id |-> shape(1)],
              [trip_id |-> 2, route_id |-> 2, service_id |-> 2, shape_id |-> shape(2)]>>
            \o (IF "calendar_dates" \in keys
                THEN <<[trip_id |-> 3, route_id |-> 1, service_id |-> 3,
                        shape_id |-> NaN]>>
                ELSE <<>>)
      [] key = "stops" ->
            [i \in StopIds |-> [stop_id |-> i, stop_lon |-> 2 * i, stop_lat |-> 2,
                                parent_station |-> parent[i]]]
      [] key = "stop_times" ->
            <<[trip_id |-> 1, stop_id |-> 1, stop_sequence |-> 1]>>
            \o [i \in 1..(NumStops - 1) |->
                   [trip_id |-> 2, stop_id |-> i + 1, stop_sequence |-> i]]
            \o (IF "calendar_dates" \in keys
                THEN <<[trip_id |-> 3, stop_id |-> NumStops, stop_sequence |-> 1]>>
                ELSE <<>>)
      [] key = "calendar" ->
            <<[monday |-> 1, tuesday |-> 1, wednesday |-> 1, thursday |-> 1,
               friday |-> 1, saturday |-> 0, sunday |-> 0,
               start_date |-> 20200101, end_date |-> 20200131, service_id |-> 1],
              [monday |-> 0, tuesday |-> 0, wednesday |-> 0, thursday |-> 0,
               friday |-> 0, saturday |-> 1, sunday |-> 1,
               start_date |-> 20200201, end_date |-> 20200229, service_id |-> 2]>>
      [] key = "calendar_dates" ->
            <<[service_id |-> 2, date |-> 20200103, exception_type |-> 1],
              [service_id |-> 3, date |-> 20200105, exception_type |-> 1],
              [service_id |-> 3, date |-> 20200103, exception_type |-> 1]>>
      [] key = "shapes" ->
            <<[shape_id |-> 1, shape_pt_lon |-> 2, shape_pt_lat |-> 2,
               shape_pt_sequence |-> 1],
              [shape_id |-> 1, shape_pt_lon |-> 4, shape_pt_lat |-> 2,
               shape_pt_sequence |-> 2],
              [shape_id |-> 2, shape_pt_lon |-> 2 * NumStops, shape_pt_lat |-> 2,
               shape_pt_sequence |-> 2],
              [shape_id |-> 2, shape_pt_lon |-> 4, shape_pt_lat |-> 2,
               shape_pt_sequence |-> 1]>>
      [] key = "frequencies" ->
            <<[trip_id |-> 1, headway_secs |-> 600],
              [trip_id |-> 2, headway_secs |-> 300]>>
      [] key = "transfers" ->
            <<[from_stop_id |-> 1, to_stop_id |-> 2],
              [from_stop_id |-> 2, to_stop_id |-> NumStops],
              [from_stop_id |-> 1, to_stop_id |-> NumStops]>>

Feed(keys, parent) == [key \in keys |-> FeedTable(key, keys, parent)]

AllTables == REQUIRED_GTFS_FILES \cup OptionalTables

\* parent_station of every stop: none, or a stop with a larger id
ParentChoices ==
    {p \in [StopIds -> {NaN} \cup StopIds] : \A i \in StopIds : p[i] = NaN \/ p[i] > i}

\* stop 1 is a child of the last stop
BaseParent == [i \in StopIds |-> IF i = 1 THEN NumStops ELSE NaN]

\* the files of a feed: the required ones and any optional ones, or a feed
\* that defines its services in calendar_dates alone
KeyChoices ==
    {REQUIRED_GTFS_FILES \cup O : O \in SUBSET OptionalTables}
    \cup {AllTables \ {"calendar"}}

Loaded == [op |-> "load_gtfs", args |-> <<>>, err |-> "none", ret |-> <<>>]

InitStore ==
    \/ \E parent \in ParentChoices : df_dict = Feed(AllTables, parent)
    \/ \E keys \in KeyChoices : df_dict = Feed(keys, BaseParent)

Init ==
    /\ InitStore
    /\ pre = df_dict
    /\ last = Loaded
    /\ dst = NoFile
    /\ calls = 0

-----------------------------------------------------------------------------
(* The arguments the calls are tried with *)

\* the smallest id of S bare (not in a list), each other id of S in a list of
\* one, and the list of the smallest and the largest id
IdArgs(S) ==
    {[kind |-> "scalar", val |-> SetMin(S)]}
    \cup {[kind |-> "list", val |-> <<x>>] : x \in S \ {SetMin(S)}}
    \cup {[kind |-> "list", val |-> <<SetMin(S), -SetMin({-x : x \in S})>>]}

\* a box ends between two stops: its bounds are odd numbers
LastEnd == 2 * NumStops + 1

\* the boxes [a, 1, b, 3] that start before the first stop or end after the
\* last one
Boxes ==
    {<<1, 1, 2 * i + 1, 3>> : i \in StopIds}
    \cup {<<2 * i - 1, 1, LastEnd, 3>> : i \in StopIds}

\* what is no geometry: a list of three numbers, a string
BadGeometryArgs == {[kind |-> "list", val |-> <<1, 1, 3>>],
                    [kind |-> "str", val |-> <<>>]}

\* a box around stop 1, a box around all stops but the last, a polygon around
\* the last stop, and what is no geometry
GeometryArgs ==
    {[kind |-> "list", val |-> <<1, 1, 3, 3>>],
     [kind |-> "list", val |-> <<1, 1, LastEnd - 2, 3>>],
     [kind |-> "BaseGeometry", val |-> box(<<LastEnd - 2, 1, LastEnd, 3>>)]}
    \cup BadGeometryArgs

\* shape 1 runs from 2 to 4 and shape 2 from 4 to the last stop
ShapeArgs ==
    {<<[kind |-> "list", val |-> <<1, 1, 5, 3>>], "within">>,
     <<[kind |-> "list", val |-> <<1, 1, 3, 3>>], "intersects">>,
     <<[kind |-> "BaseGeometry", val |-> box(<<5, 1, LastEnd, 3>>)], "intersects">>,
     <<[kind |-> "list", val |-> <<1, 1, 5, 3>>], "touches">>}
    \cup {<<g, "within">> : g \in BadGeometryArgs}

DateRanges == {<<20200101, 20200104>>, <<20200103, 20200103>>,
               <<20200104, 20200201>>, <<20200201, 20200201>>}

\* datetime.strptime(s, "%Y%m%d") of the two ends of a range, and arguments
\* that are no datetime
DateArgs ==
    {<<[kind |-> "datetime", val |-> to_datetime(r[1])],
       [kind |-> "datetime", val |-> to_datetime(r[2])]>> : r \in DateRanges}
    \cup {<<[kind |-> "str", val |-> 0],
            [kind |-> "datetime", val |-> to_datetime(20200104)]>>,
          <<[kind |-> "datetime", val |-> to_datetime(20200101)],
            [kind |-> "str", val |-> 0]>>}

-----------------------------------------------------------------------------
(* The calls.  A call replaces the caller's store by what the call leaves, *)
(* exception or not: the filters assign into the caller's dict.            *)

Called(op, args, c) ==
    /\ calls' = calls + 1
    /\ pre' = df_dict
    /\ df_dict' = c.df
    /\ last' = [op |-> op, args |-> args, err |-> c.err, ret |-> <<>>]
    /\ UNCHANGED dst

FilterByStopIds ==
    /\ calls < MaxCalls
    /\ \E ids \in IdArgs(StopIds) :
           Called("filter_by_stop_ids", <<ids>>, filter_by_stop_ids(df_dict, ids))

SpatialFilterByStops ==
    /\ calls < MaxCalls
    /\ \E g \in GeometryArgs :
           Called("spatial_filter_by_stops", <<g>>, spatial_filter_by_stops(df_dict, g))

SpatialFilterByStations ==
    /\ calls < MaxCalls
    /\ \E g \in GeometryArgs :
           Called("spatial_filter_by_stations", <<g>>,
                  spatial_filter_by_stations(df_dict, g))

SpatialFilterByShapes ==
    /\ calls < MaxCalls
    /\ \E a \in ShapeArgs :
           Called("spatial_filter_by_shapes", a,
                  spatial_filter_by_shapes(df_dict, a[1], a[2]))

FilterByShapeIds ==
    /\ calls < MaxCalls
    /\ \E ids \in IdArgs({1, 2}) :
           Called("filter_by_shape_ids", <<ids>>, filter_by_shape_ids(df_dict, ids))

FilterByAgencyIds ==
    /\ calls < MaxCalls
    /\ \E ids \in IdArgs({1, 2}) :
           Called("filter_by_agency_ids", <<ids>>, filter_by_agency_ids(df_dict, ids))

FilterByServiceIds ==
    /\ calls < MaxCalls
    /\ \E ids \in IdArgs({1, 2, 3}) :
           Called("filter_by_service_ids", <<ids>>, filter_by_service_ids(df_dict, ids))

FilterByCalendar ==
    /\ calls < MaxCalls
    /\ \E a \in DateArgs :
           Called("filter_by_calendar", a, filter_by_calendar(df_dict, a[1], a[2]))

\* the query get_stop_ids_including_stations_within_geometry(df_dict, geom)
GetStopIdsIncludingStations ==
    \E b \in Boxes :
        /\ calls < MaxCalls
        /\ calls' = calls + 1
        /\ pre' = df_dict
        /\ IF "stops" \in DOMAIN df_dict
           THEN last' = [op |-> "get_stop_ids_including_stations_within_geometry",
                         args |-> <<box(b)>>, err |-> "none",
                         ret |-> get_stop_ids_including_stations_within_geometry(
                                     df_dict, box(b))]
           ELSE last' = [op |-> "get_stop_ids_including_stations_within_geometry",
                         args |-> <<box(b)>>, err |-> "KeyError", ret |-> <<>>]
        /\ UNCHANGED <<df_dict, dst>>

SaveGtfs ==
    \E ignore_required \in BOOLEAN, overwrite \in BOOLEAN :
        LET r == save_gtfs(df_dict, dst, ignore_required, overwrite) IN
        /\ calls < MaxCalls
        /\ calls' = calls + 1
        /\ pre' = df_dict
        /\ dst' = r.file
        /\ last' = [op |-> "save_gtfs", args |-> <<dst, ignore_required, overwrite>>,
                    err |-> r.err, ret |-> <<>>]
        /\ UNCHANGED df_dict

Next ==
    \/ FilterByStopIds
    \/ SpatialFilterByStops
    \/ SpatialFilterByStations
    \/ SpatialFilterByShapes
    \/ FilterByShapeIds
    \/ FilterByAgencyIds
    \/ FilterByServiceIds
    \/ FilterByCalendar
    \/ GetStopIdsIncludingStations

Spec == Init /\ [][Next]_vars


-----------------------------------------------------------------------------
(* Writing: a store as loaded or spatially filtered by stops, saved to a    *)
(* destination that exists or not                                           *)

\* an archive that is at the destination before the program runs
OldZip == [exists |-> TRUE, entries |-> {<<"agency", to_csv(<<>>)>>}]

\* the files of a feed to save: as above, or one required file missing, or
\* stops alone (load_gtfs with subset=["stops"])
SaveKeyChoices ==
    KeyChoices \cup {AllTables \ {t} : t \in REQUIRED_GTFS_FILES} \cup {{"stops"}}

SaveInit ==
    /\ \E keys \in SaveKeyChoices : df_dict = Feed(keys, BaseParent)
    /\ pre = df_dict
    /\ last = Loaded
    /\ dst \in {NoFile, OldZip}
    /\ calls = 0

SaveNext == SaveGtfs \/ SpatialFilterByStops

SaveSpec == SaveInit /\ [][SaveNext]_vars

-----------------------------------------------------------------------------
(* The date range query: a feed whose calendar is any table of at most      *)
(* MaxRows rows, or a feed without calendar.txt, queried as loaded or after *)
(* a pass of filter_by_calendar                                             *)

MaxRows == 2

CalendarDays == {20200101, 20200104, 20200201}

\* row number service_id of a calendar: the service runs on Mondays
CalendarRow(service_id, start_date, end_date) ==
    [monday |-> 1, tuesday |-> 0, wednesday |-> 0, thursday |-> 0,
     friday |-> 0, saturday |-> 0, sunday |-> 0,
     start_date |-> start_date, end_date |-> end_date, service_id |-> service_id]

\* load_gtfs validates no row: end_date may lie before start_date
CalendarChoices ==
    UNION {[1..n -> CalendarDays \X CalendarDays] : n \in 0..MaxRows}

CalendarTable(days) == [i \in DOMAIN days |-> CalendarRow(i, days[i][1], days[i][2])]

\* the query get_calendar_date_range(df_dict)
GetCalendarDateRange ==
    /\ calls < MaxCalls
    /\ calls' = calls + 1
    /\ pre' = df_dict
    /\ last' = [op |-> "get_calendar_date_range", args |-> <<>>,
                err |-> get_calendar_date_range(df_dict).err,
                ret |-> get_calendar_date_range(df_dict).ret]
    /\ UNCHANGED <<df_dict, dst>>

DateRangeInit ==
    /\ \/ \E days \in CalendarChoices :
              df_dict = [Feed(AllTables, BaseParent) EXCEPT
                            !["calendar"] = CalendarTable(days)]
       \/ df_dict = Feed(AllTables \ {"calendar"}, BaseParent)
    /\ pre = df_dict
    /\ last = Loaded
    /\ dst = NoFile
    /\ calls = 0

DateRangeNext == GetCalendarDateRange \/ FilterByCalendar

DateRangeSpec == DateRangeInit /\ [][DateRangeNext]_vars

-----------------------------------------------------------------------------
(* Properties *)

\* the filter entry points
FilterOps ==
    {"filter_by_stop_ids", "spatial_filter_by_stops", "spatial_filter_by_stations",
     "spatial_filter_by_shapes", "filter_by_shape_ids", "filter_by_agency_ids",
     "filter_by_calendar", "filter_by_service_ids"}

\* the values of a column of a table of a store (none if the table is absent)
Ids(df, key, col) ==
    IF key \in DOMAIN df THEN {df[key][i][col] : i \in DOMAIN df[key]} ELSE {}

\* every value of child.col is a value of one of the columns `targets`
Refers(df, child, col, targets) ==
    \A v \in Ids(df, child, col) \ {NaN} :
        \E t \in targets : v \in Ids(df, t[1], t[2])

ReferentialIntegrity(df) ==
    /\ Refers(df, "stop_times", "stop_id", {<<"stops", "stop_id">>})
    /\ Refers(df, "transfers", "from_stop_id", {<<"stops", "stop_id">>})
    /\ Refers(df, "transfers", "to_stop_id", {<<"stops", "stop_id">>})
    /\ Refers(df, "stops", "parent_station", {<<"stops", "stop_id">>})
    /\ Refers(df, "stop_times", "trip_id", {<<"trips", "trip_id">>})
    /\ Refers(df, "frequencies", "trip_id", {<<"trips", "trip_id">>})
    /\ Refers(df, "trips", "route_id", {<<"routes", "route_id">>})
    /\ Refers(df, "routes", "agency_id", {<<"agency", "agency_id">>})
    /\ Refers(df, "trips", "shape_id", {<<"shapes", "shape_id">>})
    /\ Refers(df, "trips", "service_id",
              {<<"calendar", "service_id">>, <<"calendar_dates", "service_id">>})

\* a is b with some rows left out
RECURSIVE IsSubsequence(_, _)
IsSubsequence(a, b) ==
    IF a = <<>> THEN TRUE
    ELSE IF b = <<>> THEN FALSE
    ELSE IF Head(a) = Head(b) THEN IsSubsequence(Tail(a), Tail(b))
    ELSE IsSubsequence(a, Tail(b))

\* every feed with its required files satisfies referential integrity
FeedsAreConsistent ==
    (calls = 0 /\ REQUIRED_GTFS_FILES \subseteq DOMAIN df_dict)
        => ReferentialIntegrity(df_dict)

\* C1 (as claimed): a filter pass that returns on a store that satisfies
\* referential integrity leaves a store that satisfies it: no foreign key of a
\* retained row refers to a row that is gone.
C1_ReferentialClosure ==
    (last.op \in FilterOps /\ last.err = "none" /\ ReferentialIntegrity(pre))
        => ReferentialIntegrity(df_dict)

\* C2 (as claimed): after a filter pass, a child stop of the pre-filter stops
\* table is retained if and only if its parent station is retained.
C2_StationClosure ==
    (last.op \in FilterOps /\ last.err = "none" /\ "stops" \in DOMAIN pre)
        => LET kept == Ids(df_dict, "stops", "stop_id") IN
           \A i \in DOMAIN pre["stops"] :
               LET c == pre["stops"][i] IN
               notna(c.parent_station) =>
                   /\ c.stop_id \in kept => c.parent_station \in kept
                   /\ c.parent_station \in kept => c.stop_id \in kept

\* C3 (as claimed): after a filter pass, a pre-filter transfer is in the
\* filtered transfers table if and only if both its ends are stop_ids of the
\* filtered stops table.
C3_TransferAndSemantics ==
    (last.op \in FilterOps /\ last.err = "none"
     /\ {"transfers", "stops"} \subseteq DOMAIN pre)
        => LET kept == Ids(df_dict, "stops", "stop_id") IN
           \A i \in DOMAIN pre["transfers"] :
               LET t == pre["transfers"][i] IN
               (\E j \in DOMAIN df_dict["transfers"] : df_dict["transfers"][j] = t)
                   <=> (t.from_stop_id \in kept /\ t.to_stop_id \in kept)

\* C4: when filter_by_calendar returns, every service_id of the retained
\* calendar_dates rows is the service_id of a retained calendar row.
C4_CalendarReconciliation ==
    (last.op = "filter_by_calendar" /\ last.err = "none")
        => Ids(df_dict, "calendar_dates", "service_id")
               \subseteq Ids(df_dict, "calendar", "service_id")

\* C4's case: filter_by_calendar returned and the calendar holds a row for a
\* service_id that only calendar_dates defined before
C4_Witness ==
    /\ last.op = "filter_by_calendar" /\ last.err = "none"
    /\ \E id \in Ids(df_dict, "calendar_dates", "service_id") :
           id \notin Ids(pre, "calendar", "service_id")

\* C5: a filter pass neither adds nor drops a table, and every table it leaves
\* is the pre-filter table with some rows left out (so it has no more rows);
\* except the calendar when filter_by_calendar returns, which is the calendar
\* rows that overlap the date range preceded by exactly one synthesized row per
\* service_id that is in the date-filtered calendar_dates and not in the
\* date-filtered calendar.
C5_Monotonicity ==
    last.op \in FilterOps =>
        /\ DOMAIN df_dict = DOMAIN pre
        /\ \A key \in DOMAIN pre :
               IF key = "calendar" /\ last.op = "filter_by_calendar" /\ last.err = "none"
               THEN LET start == last.args[1].val
                        end == last.args[2].val
                        dates == SelectSeq(pre["calendar_dates"],
                                     LAMBDA r : start <= to_datetime(r.date)
                                                /\ to_datetime(r.date) <= end)
                        kept == SelectSeq(pre["calendar"],
                                    LAMBDA r : to_datetime(r.start_date) <= end
                                               /\ to_datetime(r.end_date) >= start)
                        missing == Range(Column(dates, "service_id"))
                                       \ Range(Column(kept, "service_id"))
                        n == Cardinality(missing)
                        calendar == df_dict["calendar"]
                    IN  /\ Len(calendar) = n + Len(kept)
                        /\ SubSeq(calendar, n + 1, Len(calendar)) = kept
                        /\ {calendar[i].service_id : i \in 1..n} = missing
                        /\ IsSubsequence(kept, pre["calendar"])
               ELSE /\ IsSubsequence(df_dict[key], pre[key])
                    /\ Len(df_dict[key]) <= Len(pre[key])

\* C5's case: filter_by_calendar returned and the calendar has more rows than
\* before, while calendar_dates has fewer
C5_Witness ==
    /\ last.op = "filter_by_calendar" /\ last.err = "none"
    /\ Len(df_dict["calendar"]) > Len(pre["calendar"])
    /\ Len(df_dict["calendar_dates"]) < Len(pre["calendar_dates"])

\* the station closure of the seed set S in the stops table
Closure(stops, S) ==
    Range(StationClosure(stops, WhereIn(stops, "stop_id", SortedSeq(S))))

\* C6 (as claimed): the station closure of a station closure is that station
\* closure: the closure of the ids that
\* get_stop_ids_including_stations_within_geometry returns is those ids.
C6_ClosureIdempotent ==
    (last.op = "get_stop_ids_including_stations_within_geometry"
     /\ last.err = "none")
        => Closure(pre["stops"], Range(last.ret)) = Range(last.ret)

\* C7 (as claimed): a filter entry point that raises leaves every table as it
\* was before the call.
C7_NoPartialFiltering ==
    (last.op \in FilterOps /\ last.err # "none") => df_dict = pre

\* C8 (as claimed): by stop ids, by shape ids, by agency ids and by date range,
\* on a store with the required tables and the anchor table, the call returns
\* whichever optional tables are absent, and adds no table.
C8_OptionalTablesSkipped ==
    (/\ last.op \in {"filter_by_stop_ids", "filter_by_shape_ids",
                     "filter_by_agency_ids", "filter_by_calendar"}
     /\ REQUIRED_GTFS_FILES \subseteq DOMAIN pre
     /\ last.op = "filter_by_shape_ids" => "shapes" \in DOMAIN pre
     /\ last.op = "filter_by_calendar" =>
            \A i \in {1, 2} : last.args[i].kind = "datetime")
        => (last.err = "none" /\ DOMAIN df_dict = DOMAIN pre)

\* what save_gtfs was called with
SaveFile == last.args[1]
SaveIgnoreRequired == last.args[2]
SaveOverwrite == last.args[3]
SaveIncomplete == ~(REQUIRED_GTFS_FILES \subseteq DOMAIN pre)

\* the destination holds every table of the store, and nothing else
WroteEveryTable == dst = ZipOf(pre)

\* C9 (as claimed): if the destination exists and overwrite is not requested,
\* save_gtfs returns and leaves the destination as it is, for every store;
\* otherwise it raises and writes nothing if a required table is absent and
\* ignore_required is false, and otherwise writes every table.
C9_Original ==
    last.op = "save_gtfs" =>
        IF SaveFile.exists /\ ~SaveOverwrite
        THEN last.err = "none" /\ dst = SaveFile
        ELSE IF SaveIncomplete /\ ~SaveIgnoreRequired
        THEN last.err # "none" /\ dst = SaveFile
        ELSE last.err = "none" /\ WroteEveryTable

\* C9 (amended): if a required table is absent and ignore_required is false,
\* save_gtfs raises and leaves the destination as it is, whether it exists or
\* not; otherwise, if the destination exists and overwrite is not requested, it
\* returns and leaves the destination as it is; otherwise it returns and has
\* written every table.
C9_WritePath ==
    last.op = "save_gtfs" =>
        IF SaveIncomplete /\ ~SaveIgnoreRequired
        THEN last.err = "ValueError" /\ dst = SaveFile
        ELSE IF SaveFile.exists /\ ~SaveOverwrite
        THEN last.err = "none" /\ dst = SaveFile
        ELSE last.err = "none" /\ WroteEveryTable

\* C9's case: the destination existed, overwrite was not requested, a
\* required table was absent and ignore_required was false
C9_Witness ==
    /\ last.op = "save_gtfs"
    /\ SaveFile.exists /\ ~SaveOverwrite
    /\ SaveIncomplete /\ ~SaveIgnoreRequired
    /\ last.err = "ValueError" /\ dst = SaveFile

\* C10: get_stop_ids_including_stations_within_geometry returns, each once,
\* the stop_ids M whose point meets the geometry, the parent stations P of the
\* stops of M, and the stop_ids C whose parent_station is in M or P: nothing
\* else.
C10_StopIdsIncludingStations ==
    (last.op = "get_stop_ids_including_stations_within_geometry"
     /\ last.err = "none")
        => LET stops == Range(pre["stops"])
               geom == last.args[1]
               M == {r.stop_id : r \in {q \in stops :
                        PointIntersects(q.stop_lon, q.stop_lat, geom)}}
               P == {r.parent_station : r \in {q \in stops : q.stop_id \in M}} \ {NaN}
               C == {r.stop_id : r \in {q \in stops : q.parent_station \in M \cup P}}
           IN  /\ Range(last.ret) = M \cup P \cup C
               /\ \A i, j \in DOMAIN last.ret : i # j => last.ret[i] # last.ret[j]

\* C10's case: only stop 1 meets the geometry, its parent station is the last
\* stop and another stop is no child of either: the result is the two
C10_Witness ==
    /\ last.op = "get_stop_ids_including_stations_within_geometry"
    /\ last.args[1].maxx = 3
    /\ Ids(pre, "stops", "stop_id") = StopIds
    /\ last.ret = <<1, NumStops>>

\* what get_calendar_date_range was asked about
QueriedCalendar == pre["calendar"]
QueriedStartDates == Range(Column(QueriedCalendar, "start_date"))
QueriedEndDates == Range(Column(QueriedCalendar, "end_date"))

\* C11 (as claimed): on a store with a non-empty calendar,
\* get_calendar_date_range returns the minimum start_date and the maximum
\* end_date of the calendar rows, the first not after the second; on a store
\* without calendar it raises.
C11_Original ==
    last.op = "get_calendar_date_range" =>
        IF "calendar" \notin DOMAIN pre THEN last.err # "none"
        ELSE QueriedCalendar # <<>> =>
                 /\ last.err = "none"
                 /\ last.ret[1] = to_datetime(SetMin(QueriedStartDates))
                 /\ last.ret[2] = to_datetime(SetMax(QueriedEndDates))
                 /\ last.ret[1] <= last.ret[2]

\* C11 (amended): on a store with a non-empty calendar,
\* get_calendar_date_range returns the minimum and the maximum of all
\* start_date and end_date values of the calendar rows, the first not after
\* the second; these are the minimum start_date and the maximum end_date when
\* no row ends before it starts; on a store without calendar it raises
\* ValueError.
C11_CalendarDateRange ==
    last.op = "get_calendar_date_range" =>
        IF "calendar" \notin DOMAIN pre THEN last.err = "ValueError"
        ELSE QueriedCalendar # <<>> =>
                 /\ last.err = "none"
                 /\ last.ret[1] = to_datetime(SetMin(QueriedStartDates \cup QueriedEndDates))
                 /\ last.ret[2] = to_datetime(SetMax(QueriedStartDates \cup QueriedEndDates))
                 /\ last.ret[1] <= last.ret[2]
                 /\ (\A i \in DOMAIN QueriedCalendar :
                        QueriedCalendar[i].start_date <= QueriedCalendar[i].end_date)
                        => /\ last.ret[1] = to_datetime(SetMin(QueriedStartDates))
                           /\ last.ret[2] = to_datetime(SetMax(QueriedEndDates))

\* C11's case: the query returned for a calendar with a row that ends before
\* any row starts
C11_Witness ==
    /\ last.op = "get_calendar_date_range" /\ last.err = "none"
    /\ SetMin(QueriedEndDates) < SetMin(QueriedStartDates)
    /\ last.ret[1] = to_datetime(SetMin(QueriedEndDates))

\* the rows of a table of a store, as a set (none if the table is absent)
RowsOf(df, key) == IF key \in DOMAIN df THEN Range(df[key]) ELSE {}

\* the stop ids S a by-stop pass was seeded with: the ids given, or the ids of
\* the stops that intersect the geometry given
SeedStopIds ==
    IF last.op = "filter_by_stop_ids" THEN Range(AsList(last.args[1]))
    ELSE {r.stop_id : r \in {q \in RowsOf(pre, "stops") :
              PointIntersects(q.stop_lon, q.stop_lat, Geometry(last.args[1]).geom)}}

ByStopPassReturned ==
    last.op \in {"filter_by_stop_ids", "spatial_filter_by_stops"} /\ last.err = "none"

\* C12: after filter_by_stop_ids(S) or spatial_filter_by_stops returns, stops
\* and stop_times are their rows with stop_id in S, a trip is retained iff a
\* pre-filter stop_time of it has its stop_id in S, frequencies keeps the rows
\* of the retained trips, a route is retained iff a retained trip refers to it
\* and an agency iff a retained route refers to it.
C12_ByStopCascade ==
    ByStopPassReturned =>
        /\ df_dict["stops"] = SelectSeq(pre["stops"], LAMBDA r : r.stop_id \in SeedStopIds)
        /\ df_dict["stop_times"]
               = SelectSeq(pre["stop_times"], LAMBDA r : r.stop_id \in SeedStopIds)
        /\ df_dict["trips"]
               = SelectSeq(pre["trips"], LAMBDA t :
                     \E st \in RowsOf(pre, "stop_times") :
                         st.trip_id = t.trip_id /\ st.stop_id \in SeedStopIds)
        /\ df_dict["routes"]
               = SelectSeq(pre["routes"], LAMBDA r :
                     \E t \in RowsOf(df_dict, "trips") : t.route_id = r.route_id)
        /\ df_dict["agency"]
               = SelectSeq(pre["agency"], LAMBDA a :
                     \E r \in RowsOf(df_dict, "routes") : r.agency_id = a.agency_id)
        /\ "frequencies" \in DOMAIN pre =>
               df_dict["frequencies"]
                   = SelectSeq(pre["frequencies"], LAMBDA f :
                         \E t \in RowsOf(df_dict, "trips") : t.trip_id = f.trip_id)

\* C12's case: a by-stop pass kept a trip with a stop in S and dropped a trip
\* with none, and with it a frequency, a route and an agency
C12_Witness ==
    /\ ByStopPassReturned
    /\ df_dict["trips"] # <<>>
    /\ Len(df_dict["trips"]) < Len(pre["trips"])
    /\ Len(df_dict["routes"]) < Len(pre["routes"])
    /\ Len(df_dict["agency"]) < Len(pre["agency"])
    /\ "frequencies" \in DOMAIN pre
    /\ Len(df_dict["frequencies"]) < Len(pre["frequencies"])

\* the rows of a table of pre whose column col has a value in S
Narrowed(key, col, S) == SelectSeq(pre[key], LAMBDA r : r[col] \in S)

\* C13 (as claimed): filter_by_agency_ids(A) on a store that satisfies
\* referential integrity returns, and leaves agency and routes as their rows
\* with agency_id in A, trips as the rows of a retained route, stop_times as
\* the rows of a retained trip, stops as the stops of the retained stop_times
\* with their station closure, and the optional tables narrowed by the
\* retained trips and stops.
C13_ByAgencyCascade ==
    (/\ last.op = "filter_by_agency_ids"
     /\ REQUIRED_GTFS_FILES \subseteq DOMAIN pre
     /\ ReferentialIntegrity(pre))
        => LET A == Range(AsList(last.args[1])) IN
           /\ last.err = "none"
           /\ df_dict["agency"] = Narrowed("agency", "agency_id", A)
           /\ df_dict["routes"] = Narrowed("routes", "agency_id", A)
           /\ df_dict["trips"]
                  = Narrowed("trips", "route_id", Ids(df_dict, "routes", "route_id"))
           /\ df_dict["stop_times"]
                  = Narrowed("stop_times", "trip_id", Ids(df_dict, "trips", "trip_id"))
           /\ df_dict["stops"]
                  = Narrowed("stops", "stop_id",
                        Closure(pre["stops"], Ids(df_dict, "stop_times", "stop_id")))
           /\ \A key \in {"calendar", "calendar_dates"} \cap DOMAIN pre :
                  df_dict[key]
                      = Narrowed(key, "service_id", Ids(df_dict, "trips", "service_id"))
           /\ "shapes" \in DOMAIN pre =>
                  df_dict["shapes"]
                      = Narrowed("shapes", "shape_id", Ids(df_dict, "trips", "shape_id"))
           /\ "frequencies" \in DOMAIN pre =>
                  df_dict["frequencies"]
                      = Narrowed("frequencies", "trip_id", Ids(df_dict, "trips", "trip_id"))
           /\ "transfers" \in DOMAIN pre =>
                  df_dict["transfers"]
                      = SelectSeq(pre["transfers"], LAMBDA t :
                            /\ t.from_stop_id \in Ids(df_dict, "stops", "stop_id")
                            /\ t.to_stop_id \in Ids(df_dict, "stops", "stop_id"))

\* the date range filter_by_calendar was called with
QueryStart == last.args[1].val
QueryEnd == last.args[2].val

\* (a) the pre-filter calendar_dates rows whose date is in the range, bounds
\* included, and (b) the pre-filter calendar rows that overlap the range
DatesInRange ==
    SelectSeq(pre["calendar_dates"], LAMBDA r :
        QueryStart <= to_datetime(r.date) /\ to_datetime(r.date) <= QueryEnd)
CalendarInRange ==
    SelectSeq(pre["calendar"], LAMBDA r :
        to_datetime(r.start_date) <= QueryEnd /\ to_datetime(r.end_date) >= QueryStart)

ByCalendarReturned == last.op = "filter_by_calendar" /\ last.err = "none"

\* C14: after filter_by_calendar(start, end) returns, a trip is retained iff
\* its service_id is that of a row of (a) or of (b), calendar_dates is the rows
\* of (a), and the calendar rows that were there before the call are the rows
\* of (b).
C14_ServiceIdResolution ==
    ByCalendarReturned =>
        LET U == Range(Column(DatesInRange, "service_id"))
                     \cup Range(Column(CalendarInRange, "service_id")) IN
        /\ df_dict["trips"] = SelectSeq(pre["trips"], LAMBDA t : t.service_id \in U)
        /\ df_dict["calendar_dates"] = DatesInRange
        /\ SelectSeq(df_dict["calendar"], LAMBDA r : r \in Range(pre["calendar"]))
               = CalendarInRange

\* C14's case: a calendar_dates row dated on the first and last day of the
\* range is retained and one outside is dropped, a calendar row is dropped,
\* and a trip is retained whose service has a row in (a) and none in (b)
C14_Witness ==
    /\ ByCalendarReturned
    /\ QueryStart = QueryEnd
    /\ DatesInRange # <<>> /\ Len(DatesInRange) < Len(pre["calendar_dates"])
    /\ CalendarInRange # <<>> /\ Len(CalendarInRange) < Len(pre["calendar"])
    /\ \E t \in Range(df_dict["trips"]) :
           t.service_id \notin Range(Column(CalendarInRange, "service_id"))

\* the service_ids of (a) that no row of (b) has
MissingServiceIds ==
    Range(Column(DatesInRange, "service_id")) \ Range(Column(CalendarInRange, "service_id"))

ZeroWeekdays(r) ==
    \A day \in {"monday", "tuesday", "wednesday", "thursday", "friday",
                 "saturday", "sunday"} : r[day] = 0

\* C15: after filter_by_calendar returns, the calendar holds, for each
\* service_id of the date-filtered calendar_dates that the date-filtered
\* calendar lacks, exactly one row, with every weekday 0 and start_date =
\* end_date = the date of a retained calendar_dates row of that service_id;
\* every other row is a row of the date-filtered calendar, and these are all
\* there, unmodified and in their order.
C15_PlaceholderSynthesis ==
    ByCalendarReturned =>
        LET calendar == df_dict["calendar"] IN
        /\ \A id \in MissingServiceIds :
               \E i \in DOMAIN calendar :
                   /\ calendar[i].service_id = id
                   /\ \A j \in DOMAIN calendar : calendar[j].service_id = id => j = i
                   /\ ZeroWeekdays(calendar[i])
                   /\ calendar[i].start_date = calendar[i].end_date
                   /\ \E d \in Range(df_dict["calendar_dates"]) :
                          d.service_id = id /\ d.date = calendar[i].start_date
        /\ SelectSeq(calendar, LAMBDA r : r.service_id \notin MissingServiceIds)
               = CalendarInRange

\* C15's case: the calendar row of service 1 is retained as it was, and
\* service 3, which only calendar_dates defines, with a row dated 20200103, has
\* one calendar row with every weekday 0 that starts and ends on 20200103
C15_Witness ==
    /\ ByCalendarReturned
    /\ 3 \in MissingServiceIds
    /\ \E r \in Range(df_dict["calendar"]) :
           r.service_id = 3 /\ ZeroWeekdays(r)
           /\ r.start_date = 20200103 /\ r.end_date = 20200103
    /\ \E r \in Range(df_dict["calendar"]) :
           r.service_id = 1 /\ r \in Range(pre["calendar"]) /\ ~ZeroWeekdays(r)

\* C16 (as claimed): when shapes is present, after spatial_filter_by_stops
\* returns, a shapes row is retained iff a retained trip refers to its
\* shape_id and its point intersects the geometry.
C16_ShapePointPrune ==
    (/\ last.op = "spatial_filter_by_stops" /\ last.err = "none"
     /\ "shapes" \in DOMAIN pre)
        => df_dict["shapes"]
               = SelectSeq(pre["shapes"], LAMBDA r :
                     /\ r.shape_id \in Ids(df_dict, "trips", "shape_id")
                     /\ PointIntersects(r.shape_pt_lon, r.shape_pt_lat,
                                         Geometry(last.args[1]).geom))

\* filter_by_stop_ids returned; B is the argument it was called with
ByStopIdsReturned == last.op = "filter_by_stop_ids" /\ last.err = "none"

\* the arguments the second pass is tried with: the modelled arguments and
\* every list of two stop ids
OtherStopIdArgs ==
    IdArgs(StopIds) \cup {[kind |-> "list", val |-> <<x, y>>] : x, y \in StopIds}

\* C17: when filter_by_stop_ids(B) has returned, filter_by_stop_ids(B) once
\* more leaves the store as it is, and for every A, filter_by_stop_ids(A) now
\* leaves the store that filter_by_stop_ids(A) followed by
\* filter_by_stop_ids(B) leaves from the store before the call: every table,
\* the same rows.
C17_ByStopIdempotentAndCommutative ==
    ByStopIdsReturned =>
        /\ filter_by_stop_ids(df_dict, last.args[1]) = Start(df_dict)
        /\ \A A \in OtherStopIdArgs :
               filter_by_stop_ids(df_dict, A)
                   = filter_by_stop_ids(filter_by_stop_ids(pre, A).df, last.args[1])

\* C17's case: filter_by_stop_ids(B) removed rows, and there is an A that
\* removes more, removes rows of the store before the call too, and leaves
\* stops and trips
C17_Witness ==
    /\ ByStopIdsReturned
    /\ df_dict # pre
    /\ \E A \in OtherStopIdArgs :
           /\ filter_by_stop_ids(df_dict, A).df # df_dict
           /\ filter_by_stop_ids(pre, A).df # pre
           /\ filter_by_stop_ids(pre, A).df # filter_by_stop_ids(df_dict, A).df
           /\ filter_by_stop_ids(df_dict, A).df["stops"] # <<>>
           /\ filter_by_stop_ids(df_dict, A).df["trips"] # <<>>

=============================================================================
